---- MODULE Spec2Model ----
(***************************************************************************)
(* Verification subsystem of the research backend: the trusted / blocked   *)
(* domain registries, ReliabilityAssessor, FreshnessChecker,               *)
(* CrossValidator, FactChecker and the VerificationService orchestrator.   *)
(*                                                                         *)
(* Numbers.  Sub-scores, weights and trust scores are kept in hundredths   *)
(* (0.95 is 95); a reliability score, being a sum of products of two such  *)
(* numbers, is kept in ten-thousandths (0.7 is 7000).  Cross-validation    *)
(* ratios are exact fractions [num, den].  Dates are ages in whole days    *)
(* before "now" (datetime.utcnow() of the call).  An optional value is a   *)
(* sequence: <<>> is Python's None, <<v>> is the value v.                  *)
(***************************************************************************)
EXTENDS Integers, Sequences, FiniteSets, TLC

VARIABLES
    sources,        \* data_sources table: source id -> DataSource row
    items,          \* collected_data table: item id -> CollectedData row
    trusted,        \* trusted_sources table: domain -> trust_score
    blocked,        \* blocked_sources table: the set of blocked domains
    verifications,  \* source_verifications table, in insertion order
    validations,    \* data_validations table, in insertion order
    checker_thresholds,  \* FreshnessChecker.freshness_thresholds: category -> days
    calls,          \* verify_source calls in flight: call id -> its position and locals
    last            \* the most recent call: operation, arguments, result

vars == <<sources, items, trusted, blocked, verifications, validations, checker_thresholds, calls, last>>

None == <<>>
Some(v) == <<v>>
IsNone(o) == o = <<>>
Val(o) == o[1]

----------------------------------------------------------------------------
(* Bounds of the model *)

\* rows kept in each result table; a call that would add one more is not taken
MaxRecords == 2

----------------------------------------------------------------------------
(* Enumerations (models/source_verification.py, models/data_source.py) *)

VerificationStatus == {"pending", "verified", "failed", "flagged", "outdated"}
ReliabilityRating == {"excellent", "good", "fair", "poor", "unreliable"}
SourceStatus == {"active", "inactive", "failed", "rate_limited"}
SourceType == {"web_scraping", "api", "news", "government", "social_media", "database"}

----------------------------------------------------------------------------
(* URLs and domains *)

\* A URL is its scheme flag and its host text: "https://h/..." has a scheme,
\* "h/article" has none.
Hosts == {"stats.gov.ru", "fake-news.com"}
Urls == [scheme : BOOLEAN, host : Hosts]

\* urlparse(url).netloc: the host when the URL has a scheme, "" otherwise
extract_domain(url) == IF url.scheme THEN url.host ELSE ""

\* any(indicator in domain.lower() ...), read off the domains of the model
is_government_domain(domain) == domain \in {"stats.gov.ru"}
is_educational_domain(domain) == domain \in {}
is_research_domain(domain) == domain \in {}
is_news_domain(domain) == domain \in {"fake-news.com"}

----------------------------------------------------------------------------
(* ReliabilityAssessor *)

\* the five weights, the reserved one folded into the domain trust
weights_all_applied ==
    [domain_trust |-> 40, success_rate |-> 25, freshness |-> 20,
     content_quality |-> 15, cross_validation |-> 0]

weights ==
    [domain_trust |-> 35, success_rate |-> 25, freshness |-> 20,
     content_quality |-> 15, cross_validation |-> 5]

is_source_blocked(source, blk) ==
    IF IsNone(source.url) THEN FALSE
    ELSE extract_domain(Val(source.url)) \in blk

calculate_domain_trust(source, tr) ==
    IF IsNone(source.url) THEN 50
    ELSE LET domain == extract_domain(Val(source.url)) IN
         IF domain \in DOMAIN tr THEN tr[domain]
         ELSE IF is_government_domain(domain) THEN 95
         ELSE IF is_educational_domain(domain) THEN 85
         ELSE IF is_research_domain(domain) THEN 80
         ELSE IF is_news_domain(domain) THEN 60
         ELSE 50

calculate_success_rate(source) ==
    IF IsNone(source.success_rate) THEN 50 ELSE Val(source.success_rate)

calculate_freshness_score(source) ==
    IF IsNone(source.last_successful_fetch) THEN 50
    ELSE LET days_since_fetch == Val(source.last_successful_fetch) IN
         IF days_since_fetch <= 1 THEN 100
         ELSE IF days_since_fetch <= 7 THEN 90
         ELSE IF days_since_fetch <= 30 THEN 70
         ELSE IF days_since_fetch <= 90 THEN 50
         ELSE IF days_since_fetch <= 180 THEN 30
         ELSE 10

calculate_content_quality(source) ==
    IF source.source_type = "government" THEN 90
    ELSE IF source.source_type = "api" THEN 85
    ELSE IF source.source_type = "database" THEN 80
    ELSE IF source.source_type = "news" THEN 60
    ELSE IF source.source_type = "web_scraping" THEN 50
    ELSE 50

\* the rating table with a strict first comparison
get_reliability_rating_strict(score) ==
    IF score > 9000 THEN "excellent"
    ELSE IF score >= 7000 THEN "good"
    ELSE IF score >= 5000 THEN "fair"
    ELSE IF score >= 3000 THEN "poor"
    ELSE "unreliable"

get_reliability_rating(score) ==
    IF score >= 9000 THEN "excellent"
    ELSE IF score >= 7000 THEN "good"
    ELSE IF score >= 5000 THEN "fair"
    ELSE IF score >= 3000 THEN "poor"
    ELSE "unreliable"

determine_verification_status(score) ==
    IF score >= 7000 THEN "verified"
    ELSE IF score >= 5000 THEN "flagged"
    ELSE "failed"

\* SourceVerification(...) with the column defaults of the model class
NewVerification(sid) ==
    [source_id |-> sid,
     status |-> "pending",
     reliability_rating |-> None,
     reliability_score |-> None,
     trustworthiness_score |-> None,
     content_quality_score |-> None,
     is_outdated |-> FALSE,
     days_since_update |-> None,
     freshness_check |-> FALSE,
     fact_check_performed |-> FALSE,
     fact_check_passed |-> None,
     verified_claims |-> 0,
     total_claims |-> 0,
     issues_found |-> None]

\* the blocked record without its issue list
create_blocked_verification_no_issue(sid, source) ==
    [verification |->
        [NewVerification(sid) EXCEPT
            !.status = "failed",
            !.reliability_rating = Some("unreliable"),
            !.reliability_score = Some(0),
            !.trustworthiness_score = Some(0)],
     source |-> [source EXCEPT !.reliability_score = 0, !.status = "failed"]]

\* the blocked record with the Source's score left as it was
create_blocked_verification_keep_score(sid, source) ==
    [verification |->
        [NewVerification(sid) EXCEPT
            !.status = "failed",
            !.reliability_rating = Some("unreliable"),
            !.reliability_score = Some(0),
            !.trustworthiness_score = Some(0),
            !.issues_found = Some(<<"blocked_source">>)],
     source |-> [source EXCEPT !.status = "failed"]]

create_blocked_verification(sid, source) ==
    [verification |->
        [NewVerification(sid) EXCEPT
            !.status = "failed",
            !.reliability_rating = Some("unreliable"),
            !.reliability_score = Some(0),
            !.trustworthiness_score = Some(0),
            !.issues_found = Some(<<"blocked_source">>)],
     source |-> [source EXCEPT !.reliability_score = 0, !.status = "failed"]]

\* the weighted sum averaged with the score the Source already carries
reliability_score_of_smoothed(source, tr) ==
    (calculate_domain_trust(source, tr) * weights.domain_trust
     + calculate_success_rate(source) * weights.success_rate
     + calculate_freshness_score(source) * weights.freshness
     + calculate_content_quality(source) * weights.content_quality
     + source.reliability_score) \div 2

reliability_score_of(source, tr) ==
    calculate_domain_trust(source, tr) * weights.domain_trust
    + calculate_success_rate(source) * weights.success_rate
    + calculate_freshness_score(source) * weights.freshness
    + calculate_content_quality(source) * weights.content_quality

\* assess_source: the record it returns and the Source as it leaves it
assess_source(sid, source, tr, blk) ==
    IF is_source_blocked(source, blk) THEN create_blocked_verification(sid, source)
    ELSE LET reliability_score == reliability_score_of(source, tr) IN
         [verification |->
            [NewVerification(sid) EXCEPT
                !.status = determine_verification_status(reliability_score),
                !.reliability_rating = Some(get_reliability_rating(reliability_score)),
                !.reliability_score = Some(reliability_score),
                !.trustworthiness_score = Some(calculate_domain_trust(source, tr)),
                !.content_quality_score = Some(calculate_content_quality(source))],
          source |-> [source EXCEPT !.reliability_score = reliability_score]]

----------------------------------------------------------------------------
(* Texts.  A content body is held as what the extractors read off it: a     *)
(* token that stands for its wording, the first date a date pattern finds   *)
(* in it, how many claim and statistic fragments the pattern tables match,  *)
(* and the distinct citation URLs in it.  The empty string is EmptyText.    *)

EmptyText == [wording |-> "", text_date |-> None, n_claims |-> 0, n_stats |-> 0, n_citations |-> 0]

\* Python's `a or b` on an optional text: None and "" are both falsy
TextOr(a, b) == IF IsNone(a) \/ a = Some(EmptyText) THEN b ELSE Val(a)

\* collected_data.processed_content or collected_data.raw_content
content_of(item) == TextOr(item.processed_content, item.raw_content)

----------------------------------------------------------------------------
(* FreshnessChecker *)

freshness_thresholds ==
    [market_data |-> 30, news |-> 90, statistics |-> 365, research |-> 730, general |-> 180]

\* self.freshness_thresholds.get(category, 180)
threshold_get(thresholds, category) ==
    IF ~IsNone(category) /\ Val(category) \in DOMAIN thresholds
    THEN thresholds[Val(category)] ELSE 180

\* date_parser.parse(date_str, fuzzy=True) under try/except: a metadata value
\* is a date without a UTC offset ("date"), a date with one ("aware", which
\* parses to a timezone-aware datetime), or text no date can be read from
parse_date(date_str) ==
    IF date_str.kind \in {"date", "aware"} THEN Some(date_str.age) ELSE None

extract_date_from_text(text) == text.text_date

extract_content_date(item) ==
    IF ~IsNone(item.content_date) THEN item.content_date
    ELSE IF "publication_date" \in DOMAIN item.extra_metadata
         THEN parse_date(item.extra_metadata["publication_date"])
    ELSE IF "date" \in DOMAIN item.extra_metadata
         THEN parse_date(item.extra_metadata["date"])
    ELSE IF ~IsNone(extract_date_from_text(content_of(item)))
         THEN extract_date_from_text(content_of(item))
    ELSE Some(item.collected_date)

\* the date _extract_content_date returns is timezone-aware: only a date
\* parsed from the metadata can be
content_date_is_aware(item) ==
    /\ IsNone(item.content_date)
    /\ IF "publication_date" \in DOMAIN item.extra_metadata
       THEN item.extra_metadata["publication_date"].kind = "aware"
       ELSE /\ "date" \in DOMAIN item.extra_metadata
            /\ item.extra_metadata["date"].kind = "aware"

\* (datetime.utcnow() - content_date).days: subtracting a timezone-aware
\* datetime from the naive utcnow() raises TypeError
subtraction_raises(item) == content_date_is_aware(item)

FracMax(a, b) == IF a.num * b.den >= b.num * a.den THEN a ELSE b
FracMin(a, b) == IF a.num * b.den <= b.num * a.den THEN a ELSE b
FracGeq(a, num, den) == a.num * den >= num * a.den
FracLt(a, num, den) == a.num * den < num * a.den

\* a decay that reaches 0.0 at the threshold instead of at twice the threshold
calculate_item_freshness_score_short(days_old, threshold) ==
    IF days_old <= 0 THEN [num |-> 1, den |-> 1]
    ELSE IF days_old >= threshold THEN [num |-> 0, den |-> 1]
    ELSE [num |-> threshold - days_old, den |-> threshold]

\* line 207 is reached with threshold * 2 = 0
freshness_score_divides_by_zero(days_old, threshold) ==
    ~(days_old <= 0) /\ ~(days_old >= threshold * 2) /\ threshold * 2 = 0

\* 1.0 - days_old / (threshold * 2), clamped to [0, 1]
calculate_item_freshness_score(days_old, threshold) ==
    IF days_old <= 0 THEN [num |-> 1, den |-> 1]
    ELSE IF days_old >= threshold * 2 THEN [num |-> 0, den |-> 1]
    ELSE FracMax([num |-> 0, den |-> 1],
                 FracMin([num |-> 1, den |-> 1],
                         [num |-> threshold * 2 - days_old, den |-> threshold * 2]))

\* the result dict; a key the dict does not hold reads as None
\* check_freshness with a strict comparison of the age with the threshold
check_freshness_strict(item, category, thresholds) ==
    LET content_date == extract_content_date(item)
        threshold == threshold_get(thresholds, category)
    IN  IF IsNone(content_date)
        THEN [is_fresh |-> None, content_date |-> None, days_old |-> None,
              threshold_days |-> threshold, is_outdated |-> None,
              freshness_score |-> None, warning |-> TRUE]
        ELSE LET days_old == Val(content_date)
                 is_fresh == days_old < threshold
             IN  [is_fresh |-> Some(is_fresh), content_date |-> content_date,
                  days_old |-> Some(days_old), threshold_days |-> threshold,
                  is_outdated |-> Some(~is_fresh),
                  freshness_score |-> Some(calculate_item_freshness_score(days_old, threshold)),
                  warning |-> ~is_fresh]

check_freshness(item, category, thresholds) ==
    LET content_date == extract_content_date(item)
        threshold == threshold_get(thresholds, category)
    IN  IF IsNone(content_date)
        THEN [is_fresh |-> None, content_date |-> None, days_old |-> None,
              threshold_days |-> threshold, is_outdated |-> None,
              freshness_score |-> None, warning |-> TRUE]
        ELSE LET days_old == Val(content_date)
                 is_fresh == days_old <= threshold
             IN  [is_fresh |-> Some(is_fresh), content_date |-> content_date,
                  days_old |-> Some(days_old), threshold_days |-> threshold,
                  is_outdated |-> Some(~is_fresh),
                  freshness_score |-> Some(calculate_item_freshness_score(days_old, threshold)),
                  warning |-> ~is_fresh]

\* a call of check_freshness: what it raised, or the dict it returned
check_freshness_call(item, category, thresholds) ==
    IF subtraction_raises(item)
    THEN [raised |-> Some("TypeError"), result |-> None]
    ELSE [raised |-> None, result |-> Some(check_freshness(item, category, thresholds))]

Range(seq) == {seq[k] : k \in 1..Len(seq)}
Contains(seq, x) == \E k \in 1..Len(seq) : seq[k] = x

\* freshness_result.get("is_outdated") as a truth value
IsOutdated(freshness_result) ==
    ~IsNone(freshness_result.is_outdated) /\ Val(freshness_result.is_outdated)

\* the merge that appends the issue without looking for it
update_verification_freshness_appending(verification, freshness_result) ==
    LET outdated == IsOutdated(freshness_result)
        issues == IF IsNone(verification.issues_found) THEN <<>> ELSE Val(verification.issues_found)
    IN  [verification EXCEPT
            !.is_outdated = outdated,
            !.days_since_update = freshness_result.days_old,
            !.issues_found = IF outdated THEN Some(Append(issues, "outdated_content")) ELSE @,
            !.status = IF outdated /\ @ = "verified" THEN "flagged" ELSE @,
            !.freshness_check = TRUE]

update_verification_freshness(verification, freshness_result) ==
    LET outdated == IsOutdated(freshness_result)
        issues == IF IsNone(verification.issues_found) THEN <<>> ELSE Val(verification.issues_found)
        issues2 == IF Contains(issues, "outdated_content") THEN issues
                   ELSE Append(issues, "outdated_content")
    IN  [verification EXCEPT
            !.is_outdated = outdated,
            !.days_since_update = freshness_result.days_old,
            !.issues_found = IF outdated THEN Some(issues2) ELSE @,
            !.status = IF outdated /\ @ = "verified" THEN "flagged" ELSE @,
            !.freshness_check = TRUE]

----------------------------------------------------------------------------
(* VerificationService.verify_source *)

\* select(CollectedData).where(source_id == sid).order_by(collected_date.desc()).limit(1):
\* the rows the database may return (any one of the most recently collected)
LatestData(tbl, sid) ==
    LET mine == {i \in DOMAIN tbl : tbl[i].source_id = Some(sid)}
    IN  {i \in mine : \A j \in mine : tbl[i].collected_date <= tbl[j].collected_date}

\* source.category or "general"
category_or_general(source) ==
    IF IsNone(source.category) THEN "general" ELSE Val(source.category)

\* the early return of verify_source: "If source is blocked, return immediately"
returns_after_assessment(verification) == verification.status = "failed"

\* verify_source up to the save: the record to store and the Source as left;
\* latest is the row the latest-item query returned (None when there is none)
verify_source_result(sid, source, perform_full_check, latest, tbl, tr, blk) ==
    LET a == assess_source(sid, source, tr, blk) IN
    IF returns_after_assessment(a.verification) THEN a
    ELSE IF ~IsNone(source.last_successful_fetch) /\ perform_full_check /\ ~IsNone(latest)
         THEN [a EXCEPT !.verification =
                  update_verification_freshness(
                      a.verification,
                      check_freshness(tbl[Val(latest)], Some(category_or_general(source)),
                                      freshness_thresholds))]
         ELSE a

\* verify_source raises out of its freshness step, before the record is saved
verify_source_raises(sid, source, perform_full_check, latest, tbl, tr, blk) ==
    /\ ~returns_after_assessment(assess_source(sid, source, tr, blk).verification)
    /\ ~IsNone(source.last_successful_fetch)
    /\ perform_full_check
    /\ ~IsNone(latest)
    /\ subtraction_raises(tbl[Val(latest)])

LatestChoices(tbl, sid) ==
    IF LatestData(tbl, sid) = {} THEN {None} ELSE {Some(i) : i \in LatestData(tbl, sid)}

----------------------------------------------------------------------------
(* CrossValidator *)

similarity_threshold == 70

\* difflib.SequenceMatcher(None, content1, content2).ratio(), in hundredths,
\* for the wordings of the model: "A2" is a rewording of "A" that sits exactly
\* on the matching threshold, "B" says something else
Similarity(w1, w2) ==
    IF w1 = w2 THEN 100
    ELSE IF {w1, w2} = {"A", "A2"} THEN 70
    ELSE 30

\* a comparison that takes a similarity exactly on the threshold as a mismatch
compare_content_strict(content1, content2) ==
    IF content1 = EmptyText \/ content2 = EmptyText
    THEN [similarity |-> 0, is_matching |-> FALSE]
    ELSE LET similarity == Similarity(content1.wording, content2.wording)
         IN  [similarity |-> similarity, is_matching |-> similarity > similarity_threshold]

compare_content(content1, content2) ==
    IF content1 = EmptyText \/ content2 = EmptyText
    THEN [similarity |-> 0, is_matching |-> FALSE]
    ELSE LET similarity == Similarity(content1.wording, content2.wording)
         IN  [similarity |-> similarity, is_matching |-> similarity >= similarity_threshold]

\* the confidence without the bonus for five or more comparisons
calculate_confidence_no_bonus(matching_count, total_count) ==
    IF total_count = 0 THEN [num |-> 0, den |-> 1]
    ELSE IF total_count = 1 THEN [num |-> matching_count, den |-> total_count * 2]
    ELSE [num |-> matching_count, den |-> total_count]

calculate_confidence(matching_count, total_count) ==
    IF total_count = 0 THEN [num |-> 0, den |-> 1]
    ELSE IF total_count = 1 THEN [num |-> matching_count, den |-> total_count * 2]
    ELSE IF total_count >= 5
         THEN FracMin([num |-> 1, den |-> 1],
                      [num |-> matching_count * 12, den |-> total_count * 10])
    ELSE [num |-> matching_count, den |-> total_count]

\* the status table with the flagged band starting above 50
determine_validation_status_strict(agreement_percentage) ==
    IF FracGeq(agreement_percentage, 80, 1) THEN "verified"
    ELSE IF ~FracGeq(agreement_percentage, 50, 1) \/ agreement_percentage.num = 50 * agreement_percentage.den
         THEN "failed"
    ELSE "flagged"

determine_validation_status(agreement_percentage) ==
    IF FracGeq(agreement_percentage, 80, 1) THEN "verified"
    ELSE IF FracGeq(agreement_percentage, 50, 1) THEN "flagged"
    ELSE "failed"

create_unvalidated_result(item_id) ==
    [collected_data_id |-> item_id,
     is_validated |-> FALSE,
     validation_status |-> "pending",
     matching_sources_count |-> 0,
     contradicting_sources_count |-> 0,
     confidence_score |-> None,
     agreement_percentage |-> None,
     total_sources_compared |-> None]

\* is_validated = agreement_percentage >= 50
is_validated_of(agreement_percentage) == FracGeq(agreement_percentage, 50, 1)

\* validate_data over the contents of the related rows (a sequence of texts)
validate_contents(item_id, content, related_contents) ==
    IF related_contents = <<>> THEN create_unvalidated_result(item_id)
    ELSE LET total == Len(related_contents)
             matching == Cardinality({k \in 1..total :
                             compare_content(content, related_contents[k]).is_matching})
             contradicting == total - matching
             agreement_percentage == [num |-> matching * 100, den |-> total]
         IN  [collected_data_id |-> item_id,
              is_validated |-> is_validated_of(agreement_percentage),
              validation_status |-> determine_validation_status(agreement_percentage),
              matching_sources_count |-> matching,
              contradicting_sources_count |-> contradicting,
              confidence_score |-> Some(calculate_confidence(matching, total)),
              agreement_percentage |-> Some(agreement_percentage),
              total_sources_compared |-> Some(total)]

validate_data(tbl, item_id, related) ==
    validate_contents(item_id, content_of(tbl[item_id]),
                      [k \in 1..Len(related) |-> content_of(tbl[related[k]])])

----------------------------------------------------------------------------
(* FactChecker *)

Min(a, b) == IF a <= b THEN a ELSE b

\* what one citation probe can do: a response below 400, a response of 400 or
\* more, an httpx.RequestError, any other exception
ProbeOutcomes == {"ok", "http_error", "request_error", "other_error"}

CountOf(outcomes, kinds) == Cardinality({k \in 1..Len(outcomes) : outcomes[k] \in kinds})

\* citations[:20]
probed_citations(text) == Min(Min(text.n_citations, 50), 20)

\* a classification that files a transport failure under errors
verify_citations_transport_error(outcomes) ==
    [valid |-> CountOf(outcomes, {"ok"}),
     invalid |-> CountOf(outcomes, {"http_error"}),
     errors |-> CountOf(outcomes, {"request_error", "other_error"}),
     total_checked |-> Len(outcomes)]

verify_citations(outcomes) ==
    [valid |-> CountOf(outcomes, {"ok"}),
     invalid |-> CountOf(outcomes, {"http_error", "request_error"}),
     errors |-> CountOf(outcomes, {"other_error"}),
     total_checked |-> Len(outcomes)]

\* check_facts with a strict comparison of the verification rate with 0.7
check_facts_strict(content, verification, outcomes) ==
    LET claims == Min(content.n_claims, 20)
        citations == Min(content.n_citations, 50)
        verified_citations == verify_citations(outcomes)
        stats == Min(content.n_stats, 30)
        total_claims == claims + citations + stats
        verified_claims == verified_citations.valid
        fact_check_passed ==
            IF total_claims > 0 THEN verified_claims * 10 > 7 * total_claims ELSE TRUE
    IN  [result |->
            [fact_check_performed |-> TRUE,
             fact_check_passed |-> fact_check_passed,
             total_claims |-> total_claims,
             verified_claims |-> verified_claims,
             citations |-> verified_citations],
         verification |->
            [verification EXCEPT
                !.fact_check_performed = TRUE,
                !.fact_check_passed = Some(fact_check_passed),
                !.verified_claims = verified_claims,
                !.total_claims = total_claims]]

\* check_facts: the result dict and the verification record as it leaves it;
\* outcomes are the probe outcomes of the citations probed, in order
check_facts(content, verification, outcomes) ==
    LET claims == Min(content.n_claims, 20)
        citations == Min(content.n_citations, 50)
        verified_citations == verify_citations(outcomes)
        stats == Min(content.n_stats, 30)
        total_claims == claims + citations + stats
        verified_claims == verified_citations.valid
        fact_check_passed ==
            IF total_claims > 0 THEN verified_claims * 10 >= 7 * total_claims ELSE TRUE
    IN  [result |->
            [fact_check_performed |-> TRUE,
             fact_check_passed |-> fact_check_passed,
             total_claims |-> total_claims,
             verified_claims |-> verified_claims,
             citations |-> verified_citations],
         verification |->
            [verification EXCEPT
                !.fact_check_performed = TRUE,
                !.fact_check_passed = Some(fact_check_passed),
                !.verified_claims = verified_claims,
                !.total_claims = total_claims]]

flag_unverified_data(verification) ==
    IF ~verification.fact_check_performed THEN verification
    ELSE IF verification.fact_check_passed # Some(TRUE)
         THEN LET issues == IF IsNone(verification.issues_found) THEN <<>>
                            ELSE Val(verification.issues_found)
              IN  [verification EXCEPT !.issues_found =
                      Some(IF Contains(issues, "failed_fact_check") THEN issues
                           ELSE Append(issues, "failed_fact_check"))]
    ELSE verification

----------------------------------------------------------------------------
(* VerificationService.verify_collected_data *)

\* select(CollectedData).where(research_id == x, id != y, source_id != z): a
\* comparison with a Python None is rendered IS NULL / IS NOT NULL, and a
\* comparison of a NULL column with a value selects nothing
SqlEq(column, value) == column = value
SqlNe(column, value) == IF IsNone(value) THEN ~IsNone(column)
                        ELSE ~IsNone(column) /\ column # value

RelatedRows(tbl, item_id) ==
    {r \in DOMAIN tbl :
        /\ SqlEq(tbl[r].research_id, tbl[item_id].research_id)
        /\ r # item_id
        /\ SqlNe(tbl[r].source_id, tbl[item_id].source_id)}

RECURSIVE SeqsOf(_)
\* the orders in which the database may return the rows of a set
SeqsOf(S) == IF S = {} THEN {<<>>}
             ELSE UNION {{<<x>> \o q : q \in SeqsOf(S \ {x})} : x \in S}

\* _find_related_data: the lists .limit(limit) may return
find_related_data(tbl, item_id, limit) ==
    LET rows == RelatedRows(tbl, item_id)
    IN  UNION {SeqsOf(S) : S \in {T \in SUBSET rows :
                                     Cardinality(T) = Min(limit, Cardinality(rows))}}

\* _get_source
get_source(srcs, source_id) ==
    IF ~IsNone(source_id) /\ Val(source_id) \in DOMAIN srcs THEN source_id ELSE None

\* lines 221-231: the reliability tier of the source score
reliability_tier(score) ==
    IF score >= 7000 THEN "high" ELSE IF score >= 5000 THEN "medium" ELSE "low"

\* is_trustworthy taken from the cross-validation confidence alone
trust_after_cross_validation_alone(is_trustworthy, confidence) ==
    FracGeq(confidence, 7, 10)

\* is_trustworthy never withdrawn by a low confidence
trust_after_cross_validation_keep(is_trustworthy, confidence) ==
    IF FracGeq(confidence, 7, 10) THEN TRUE ELSE is_trustworthy

\* lines 247-250: is_trustworthy after the cross-validation confidence is read
trust_after_cross_validation(is_trustworthy, confidence) ==
    IF FracGeq(confidence, 7, 10) THEN TRUE
    ELSE IF FracLt(confidence, 5, 10) THEN FALSE
    ELSE is_trustworthy

\* the final confidence level, low from two issues on
final_confidence_level_two(n_issues, is_trustworthy) ==
    IF n_issues = 0 /\ is_trustworthy THEN "high"
    ELSE IF n_issues >= 2 THEN "low"
    ELSE "medium"

\* lines 261-266: the final confidence level
final_confidence_level(n_issues, is_trustworthy) ==
    IF n_issues = 0 /\ is_trustworthy THEN "high"
    ELSE IF n_issues > 2 THEN "low"
    ELSE "medium"

\* cross_val.get("confidence_score", 0) >= 0.7 with the key holding None
compares_none(cv) == ~IsNone(cv) /\ IsNone(Val(cv).confidence_score)

\* _generate_overall_assessment; raised is the exception it ends with, if any
generate_overall_assessment(results) ==
    LET sv == results.source_verification
        fr == results.freshness
        cv == results.cross_validation
        fc == results.fact_check
        score == Val(sv).reliability_score
        \* after "Assess source verification"
        reliability == IF IsNone(sv) THEN "unknown" ELSE reliability_tier(score)
        trust1 == ~IsNone(sv) /\ score >= 7000
        issues1 == IF ~IsNone(sv) /\ score < 5000
                   THEN <<"Source has low reliability score">> ELSE <<>>
        warnings1 == IF ~IsNone(sv) /\ score >= 5000 /\ score < 7000
                     THEN <<"Source has moderate reliability">> ELSE <<>>
        \* after "Assess freshness"
        issues2 == IF IsOutdated(fr) THEN Append(issues1, "Data is outdated") ELSE issues1
        \* after "Assess cross-validation"
        confidence == Val(Val(cv).confidence_score)
        warnings3 == IF ~IsNone(cv) /\ Val(cv).contradicting_sources > 0
                     THEN Append(warnings1, "Data contradicts other sources") ELSE warnings1
        trust3 == IF IsNone(cv) THEN trust1
                  ELSE trust_after_cross_validation(trust1, confidence)
        issues3 == IF ~IsNone(cv) /\ ~FracGeq(confidence, 7, 10) /\ FracLt(confidence, 5, 10)
                   THEN Append(issues2, "Low confidence from cross-validation") ELSE issues2
        \* after "Assess fact-checking"
        issues4 == IF ~IsNone(fc) /\ ~Val(fc).fact_check_passed
                   THEN Append(issues3, "Failed fact-checking") ELSE issues3
    IN  IF compares_none(cv) THEN [raised |-> Some("TypeError"), assessment |-> None]
        ELSE [raised |-> None,
              assessment |-> Some([reliability |-> reliability,
                                   is_trustworthy |-> trust3,
                                   confidence_level |-> final_confidence_level(Len(issues4), trust3),
                                   issues |-> issues4,
                                   warnings |-> warnings3])]

\* the "source_verification" entry of the results
source_verification_entry(verification) ==
    [status |-> verification.status,
     reliability_score |-> Val(verification.reliability_score),
     reliability_rating |-> verification.reliability_rating]

\* the "cross_validation" entry of the results
cross_validation_entry(validation) ==
    [is_validated |-> validation.is_validated,
     status |-> validation.validation_status,
     confidence_score |-> validation.confidence_score,
     agreement_percentage |-> validation.agreement_percentage,
     matching_sources |-> validation.matching_sources_count,
     contradicting_sources |-> validation.contradicting_sources_count]

\* verify_collected_data as a whole.  related is the list the sibling query
\* returned, outcomes the outcomes of the citation probes.  The result names
\* what the call returned or raised and what it left in the database.
verify_collected_data(srcs, tbl, tr, blk, item_id, perform_cross_validation, perform_fact_check, related, outcomes) ==
    LET item == tbl[item_id]
        source_ref == get_source(srcs, item.source_id)
        has_source == ~IsNone(source_ref)
        source == srcs[Val(source_ref)]
        v == verify_source_result(Val(source_ref), source, FALSE, None, tbl, tr, blk)
        category == IF has_source THEN source.category ELSE Some("general")
        freshness == check_freshness(item, category, freshness_thresholds)
        validation == validate_data(tbl, item_id, related)
        aware == subtraction_raises(item)
        unbound == ~aware /\ perform_fact_check /\ ~has_source
        do_fact_check == perform_fact_check /\ has_source
        checked == check_facts(content_of(item), v.verification, outcomes)
        final_verification == IF do_fact_check /\ ~aware
                              THEN flag_unverified_data(checked.verification)
                              ELSE v.verification
        results ==
            [collected_data_id |-> item_id,
             source_verification |->
                IF has_source THEN Some(source_verification_entry(v.verification)) ELSE None,
             freshness |-> freshness,
             cross_validation |->
                IF perform_cross_validation THEN Some(cross_validation_entry(validation))
                ELSE None,
             fact_check |-> IF do_fact_check THEN Some(checked.result) ELSE None]
        overall == generate_overall_assessment(results)
    IN  [raised |-> IF aware THEN Some("TypeError")
                    ELSE IF unbound THEN Some("UnboundLocalError")
                    ELSE overall.raised,
         results |-> IF aware \/ unbound \/ ~IsNone(overall.raised) THEN None
                     ELSE Some(results @@ [overall_assessment |-> Val(overall.assessment)]),
         \* verify_source committed the record and the Source; the final commit
         \* writes the fact-check fields onto the record
         source |-> IF has_source THEN Some(v.source) ELSE None,
         verification |-> IF has_source THEN Some(final_verification) ELSE None,
         \* the validation is added to the session and stored by the final commit
         validation |-> IF perform_cross_validation /\ ~aware /\ ~unbound THEN Some(validation)
                        ELSE None]

----------------------------------------------------------------------------
(* The stores as the acquisition layer left them *)

SourceIds == {"s1", "s2"}

\* DataSource rows: reliability_score defaults to 0.5, status to active
NewSource(url, source_type, success_rate, category, last_successful_fetch) ==
    [url |-> url, source_type |-> source_type, success_rate |-> Some(success_rate),
     category |-> category, last_successful_fetch |-> last_successful_fetch,
     status |-> "active", reliability_score |-> 5000]

SourceUrls == {None, Some([scheme |-> TRUE, host |-> "stats.gov.ru"]),
               Some([scheme |-> TRUE, host |-> "fake-news.com"]),
               Some([scheme |-> FALSE, host |-> "fake-news.com"])}
SourceTypes == {"government", "web_scraping"}
SuccessRates == {0, 95, 100}
FetchAges == {None, Some(400)}
Categories == {None, Some("news")}

SourceInputs ==
    {NewSource(u, t, r, c, f) :
        u \in SourceUrls, t \in SourceTypes, r \in SuccessRates,
        c \in Categories, f \in FetchAges}

\* the Source the sibling items come from
OtherSource == NewSource(None, "api", 100, None, None)

SourceTables(inputs) ==
    {[s \in SourceIds |-> IF s = "s1" THEN x ELSE OtherSource] : x \in inputs}

Text(wording, n_claims, n_citations) ==
    [wording |-> wording, text_date |-> None, n_claims |-> n_claims, n_stats |-> 0,
     n_citations |-> n_citations]

NoMetadata == [k \in {} |-> None]

\* CollectedData rows
NewItem(source_id, research_id, content, content_date, collected_date) ==
    [source_id |-> source_id, research_id |-> research_id,
     raw_content |-> content, processed_content |-> Some(content),
     content_date |-> content_date, extra_metadata |-> NoMetadata,
     collected_date |-> collected_date]

\* One research session "r1" holding an item of s1, two of s2 and one that has
\* no Source, and a second session "r2" with a single item of s1.  Item i1 is
\* 100 days old: fresh as "general" content, outdated as "news".
ItemTable(wording2, wording3) ==
    [i \in {"i1", "i2", "i3", "i4", "i5"} |->
        CASE i = "i1" -> NewItem(Some("s1"), Some("r1"), Text("A", 0, 0), Some(100), 0)
          [] i = "i2" -> NewItem(Some("s2"), Some("r1"), Text(wording2, 0, 0), Some(1), 1)
          [] i = "i3" -> NewItem(Some("s2"), Some("r1"), Text(wording3, 0, 0), Some(1), 1)
          [] i = "i4" -> NewItem(Some("s1"), Some("r2"), Text("C", 1, 1), Some(1), 10)
          [] i = "i5" -> NewItem(None, Some("r1"), Text("A", 0, 0), Some(1), 1)]

ItemTables == {ItemTable(w[1], w[2]) : w \in {<<"A2", "A">>, <<"A2", "B">>, <<"B", "B">>}}

\* what callers pass to the registry operations
RegistryDomains == {"fake-news.com"}
TrustScores == {20, 150}

NoTrusted == [d \in {} |-> 0]
Idle == [op |-> "none"]
\* no call is in flight
NoCalls == [c \in {} |-> None]

Init ==
    /\ sources \in SourceTables(SourceInputs)
    /\ items = ItemTable("A2", "B")
    /\ trusted = NoTrusted
    /\ blocked = {}
    /\ verifications = <<>>
    /\ validations = <<>>
    /\ checker_thresholds = freshness_thresholds
    /\ calls = NoCalls
    /\ last = Idle

----------------------------------------------------------------------------
(* Operations *)

\* ReliabilityAssessor.add_trusted_source; the unique index on domain makes
\* the commit of a second row for a domain fail
add_trusted_source(api, domain, trust_score) ==
    IF domain \in DOMAIN trusted
    THEN /\ last' = [op |-> api, domain |-> domain, trust_score |-> trust_score,
                     raised |-> Some("IntegrityError")]
         /\ UNCHANGED trusted
    ELSE /\ trusted' = trusted @@ (domain :> trust_score)
         /\ last' = [op |-> api, domain |-> domain, trust_score |-> trust_score,
                     raised |-> None]

AddTrustedSource ==
    /\ \E domain \in RegistryDomains, trust_score \in TrustScores :
          add_trusted_source("add_trusted_source", domain, trust_score)
    /\ UNCHANGED <<sources, items, blocked, verifications, validations, checker_thresholds, calls>>

\* TrustedSourceCreate: trust_score: float = Field(default=1.0, ge=0.0, le=1.0)
trust_score_admitted(trust_score) == trust_score >= 0 /\ trust_score <= 100

\* POST /trusted-sources
CreateTrustedSource ==
    /\ \E domain \in RegistryDomains, trust_score \in TrustScores :
          IF trust_score_admitted(trust_score)
          THEN add_trusted_source("create_trusted_source", domain, trust_score)
          ELSE /\ last' = [op |-> "create_trusted_source", domain |-> domain,
                           trust_score |-> trust_score, raised |-> Some("ValidationError")]
               /\ UNCHANGED trusted
    /\ UNCHANGED <<sources, items, blocked, verifications, validations, checker_thresholds, calls>>

\* a block that takes the domain off the trusted table
trusted_after_block_removing(tr, domain) == [d \in DOMAIN tr \ {domain} |-> tr[d]]

\* the trusted table after block_source(domain)
trusted_after_block(tr, domain) == tr

\* ReliabilityAssessor.block_source
block_source(domain) ==
    IF domain \in blocked
    THEN /\ last' = [op |-> "block_source", domain |-> domain, raised |-> Some("IntegrityError")]
         /\ UNCHANGED <<blocked, trusted>>
    ELSE /\ blocked' = blocked \cup {domain}
         /\ trusted' = trusted_after_block(trusted, domain)
         /\ last' = [op |-> "block_source", domain |-> domain, raised |-> None]

BlockSource ==
    /\ \E domain \in RegistryDomains : block_source(domain)
    /\ UNCHANGED <<sources, items, verifications, validations, checker_thresholds, calls>>

\* ReliabilityAssessor.assess_source called on a stored Source
AssessSource ==
    /\ \E sid \in SourceIds :
          LET a == assess_source(sid, sources[sid], trusted, blocked) IN
          /\ sources' = [sources EXCEPT ![sid] = a.source]
          /\ last' = [op |-> "assess_source", source_id |-> sid,
                      verification |-> a.verification]
    /\ UNCHANGED <<items, trusted, blocked, verifications, validations, checker_thresholds, calls>>

\* VerificationService.verify_source
VerifySource ==
    /\ Len(verifications) < MaxRecords
    /\ \E sid \in SourceIds, perform_full_check \in BOOLEAN :
       \E latest \in LatestChoices(items, sid) :
          LET r == verify_source_result(sid, sources[sid], perform_full_check, latest,
                                        items, trusted, blocked)
              raises == verify_source_raises(sid, sources[sid], perform_full_check, latest,
                                             items, trusted, blocked) IN
          \* an exception leaves the session uncommitted: nothing is stored
          /\ sources' = IF raises THEN sources ELSE [sources EXCEPT ![sid] = r.source]
          /\ verifications' = IF raises THEN verifications
                              ELSE Append(verifications, r.verification)
          /\ last' = [op |-> "verify_source", source_id |-> sid,
                      perform_full_check |-> perform_full_check,
                      verification |-> r.verification,
                      raised |-> IF raises THEN Some("TypeError") ELSE None]
    /\ UNCHANGED <<items, trusted, blocked, validations, checker_thresholds, calls>>

\* VerificationService.verify_collected_data
VerifyCollectedData ==
    /\ Len(verifications) < MaxRecords
    /\ Len(validations) < MaxRecords
    /\ \E item_id \in DOMAIN items, cv \in BOOLEAN, fc \in BOOLEAN :
       \E related \in find_related_data(items, item_id, 10) :
       \E outcomes \in [1..probed_citations(content_of(items[item_id])) -> ProbeOutcomes] :
          LET r == verify_collected_data(sources, items, trusted, blocked, item_id,
                                         cv, fc, related, outcomes) IN
          /\ sources' = IF IsNone(r.source) THEN sources
                        ELSE [sources EXCEPT ![Val(items[item_id].source_id)] = Val(r.source)]
          /\ verifications' = IF IsNone(r.verification) THEN verifications
                              ELSE Append(verifications, Val(r.verification))
          /\ validations' = IF IsNone(r.validation) THEN validations
                            ELSE Append(validations, Val(r.validation))
          /\ last' = [op |-> "verify_collected_data", item_id |-> item_id,
                      perform_cross_validation |-> cv, perform_fact_check |-> fc,
                      related |-> related,
                      raised |-> r.raised, results |-> r.results]
    /\ UNCHANGED <<items, trusted, blocked, checker_thresholds, calls>>

----------------------------------------------------------------------------
(* Spec: the registries and the verification of Sources *)

Next ==
    \/ AddTrustedSource
    \/ CreateTrustedSource
    \/ BlockSource
    \/ AssessSource
    \/ VerifySource

Spec == Init /\ [][Next]_vars

----------------------------------------------------------------------------
(* SpecData: the verification of collected items, from any state of the     *)
(* registries and any table of items                                        *)

\* the trusted tables the registry operations can leave
TrustedTables ==
    {NoTrusted} \cup {(d :> t) : d \in RegistryDomains, t \in TrustScores}

InitData ==
    /\ sources \in SourceTables(SourceInputs)
    /\ items \in ItemTables
    /\ trusted \in TrustedTables
    /\ blocked \in SUBSET RegistryDomains
    /\ verifications = <<>>
    /\ validations = <<>>
    /\ checker_thresholds = freshness_thresholds
    /\ calls = NoCalls
    /\ last = Idle

\* one call on the stores as drawn
NextData == last = Idle /\ VerifyCollectedData

SpecData == InitData /\ [][NextData]_vars

----------------------------------------------------------------------------
(* SpecRating: the rating and status tables over every score in [0, 1]      *)

Scores == 0..(100 * 100)

\* stores that the calls of SpecRating and SpecValidate do not read
FixedStores ==
    /\ sources = [s \in SourceIds |-> OtherSource]
    /\ items = ItemTable("A2", "B")
    /\ trusted = NoTrusted
    /\ blocked = {}
    /\ verifications = <<>>
    /\ validations = <<>>
    /\ checker_thresholds = freshness_thresholds
    /\ calls = NoCalls

InitRating ==
    /\ FixedStores
    /\ last \in {[op |-> "input", score |-> score] : score \in Scores}

\* lines 64-68 of assess_source on the score drawn
RateScore ==
    /\ last.op = "input"
    /\ last' = [op |-> "rate_score", score |-> last.score,
                reliability_rating |-> get_reliability_rating(last.score),
                status |-> determine_verification_status(last.score)]
    /\ UNCHANGED <<sources, items, trusted, blocked, verifications, validations, checker_thresholds, calls>>

NextRating == RateScore

SpecRating == InitRating /\ [][NextRating]_vars

----------------------------------------------------------------------------
(* SpecValidate: CrossValidator.validate_data over lists of related items   *)

\* related items handed to one validate_data call
MaxRelated == 5

Wordings == {"A", "A2", "B"}
RelatedTexts == {Text(w, 0, 0) : w \in Wordings} \cup {EmptyText}

RECURSIVE SeqsUpTo(_, _)
SeqsUpTo(S, n) ==
    IF n = 0 THEN {<<>>}
    ELSE LET shorter == SeqsUpTo(S, n - 1)
         IN  shorter \cup {Append(q, x) : q \in {r \in shorter : Len(r) = n - 1}, x \in S}

InitValidate ==
    /\ FixedStores
    /\ last \in {[op |-> "input", content |-> content, related_contents |-> related_contents] :
                    content \in {Text("A", 0, 0), EmptyText},
                    related_contents \in SeqsUpTo(RelatedTexts, MaxRelated)}

ValidateData ==
    /\ last.op = "input"
    /\ last' = [op |-> "validate_data", content |-> last.content,
                related_contents |-> last.related_contents,
                validation |-> validate_contents("i1", last.content, last.related_contents)]
    /\ UNCHANGED <<sources, items, trusted, blocked, verifications, validations, checker_thresholds, calls>>

NextValidate == ValidateData

SpecValidate == InitValidate /\ [][NextValidate]_vars

----------------------------------------------------------------------------
(* SpecFresh: one FreshnessChecker, its thresholds reconfigured between      *)
(* the checks                                                               *)

\* a metadata value: a date string of the given kind and age
DateStr(kind, age) == [kind |-> kind, age |-> age]

\* the metadata dicts of the items checked
Metadatas ==
    {NoMetadata,
     [k \in {"publication_date"} |-> DateStr("date", 30)],
     [k \in {"publication_date"} |-> DateStr("aware", 30)],
     [k \in {"publication_date"} |-> DateStr("text", 0)],
     [k \in {"date"} |-> DateStr("date", 30)],
     [k \in {"publication_date", "date"} |->
         IF k = "date" THEN DateStr("date", 30) ELSE DateStr("text", 0)]}

\* ages of the content_date column: recent, exactly 90 days, 400 days
ContentAges == {None, Some(5), Some(90), Some(400)}

\* the text of an item, with or without a date pattern in it
DatedText(text_date) == [Text("A", 0, 0) EXCEPT !.text_date = text_date]

FreshItems ==
    {[NewItem(Some("s1"), Some("r1"), DatedText(text_date), content_date, 0)
         EXCEPT !.extra_metadata = metadata] :
        content_date \in ContentAges, metadata \in Metadatas, text_date \in {None, Some(200)}}

\* categories callers pass: two with an entry from the start, one without, none
CheckCategories == {None, Some("news"), Some("general"), Some("custom")}
ThresholdCategories == {"news", "general", "custom"}
ThresholdDays == {0, 90, 400}

InitFresh ==
    /\ FixedStores
    /\ last = Idle

\* self.freshness_thresholds[category] = days
set_freshness_threshold(thresholds, category, days) ==
    [c \in DOMAIN thresholds \cup {category} |-> IF c = category THEN days ELSE thresholds[c]]

\* FreshnessChecker.get_freshness_threshold
get_freshness_threshold(thresholds, category) == threshold_get(thresholds, Some(category))

SetFreshnessThreshold ==
    /\ \E category \in ThresholdCategories, days \in ThresholdDays :
          /\ checker_thresholds' = set_freshness_threshold(checker_thresholds, category, days)
          /\ last' = [op |-> "set_freshness_threshold", category |-> category, days |-> days]
    /\ UNCHANGED <<sources, items, trusted, blocked, verifications, validations, calls>>

GetFreshnessThreshold ==
    /\ \E category \in ThresholdCategories :
          last' = [op |-> "get_freshness_threshold", category |-> category,
                   threshold |-> get_freshness_threshold(checker_thresholds, category)]
    /\ UNCHANGED <<sources, items, trusted, blocked, verifications, validations, checker_thresholds, calls>>

\* FreshnessChecker.check_freshness on an item
CheckFreshness ==
    /\ \E item \in FreshItems, category \in CheckCategories :
          LET c == check_freshness_call(item, category, checker_thresholds) IN
          last' = [op |-> "check_freshness", item |-> item, category |-> category,
                   raised |-> c.raised, result |-> c.result]
    /\ UNCHANGED <<sources, items, trusted, blocked, verifications, validations, checker_thresholds, calls>>

NextFresh ==
    \/ SetFreshnessThreshold
    \/ GetFreshnessThreshold
    \/ CheckFreshness

SpecFresh == InitFresh /\ [][NextFresh]_vars

----------------------------------------------------------------------------
(* SpecScore: _calculate_freshness_score over ages and thresholds, the      *)
(* thresholds set_freshness_threshold takes (zero and negative included)    *)

\* the largest threshold drawn
MaxThreshold == 20

ScoreThresholds == (0 - 2)..MaxThreshold
ScoreAges == (0 - 2)..(2 * MaxThreshold + 2)

InitScore ==
    /\ FixedStores
    /\ last \in {[op |-> "input", days_old |-> d, threshold |-> t] :
                    d \in ScoreAges, t \in ScoreThresholds}

\* the score of the age drawn and of the age one day later
ScoreFreshness ==
    /\ last.op = "input"
    /\ last' = [op |-> "freshness_score", days_old |-> last.days_old,
                threshold |-> last.threshold,
                raised |-> IF freshness_score_divides_by_zero(last.days_old, last.threshold)
                                \/ freshness_score_divides_by_zero(last.days_old + 1, last.threshold)
                           THEN Some("ZeroDivisionError") ELSE None,
                score |-> calculate_item_freshness_score(last.days_old, last.threshold),
                score_next |-> calculate_item_freshness_score(last.days_old + 1, last.threshold)]
    /\ UNCHANGED <<sources, items, trusted, blocked, verifications, validations, checker_thresholds, calls>>

NextScore == ScoreFreshness

SpecScore == InitScore /\ [][NextScore]_vars

----------------------------------------------------------------------------
(* SpecFacts: FactChecker.check_facts over texts and probe outcomes, alone  *)
(* and inside verify_collected_data                                         *)

\* numbers of pattern matches and of distinct URLs in a text, on both sides
\* of the caps 20 (claims), 30 (statistics), 50 (citations), 20 (probes)
ClaimCounts == {0, 3, 25}
StatCounts == {0, 35}
CitationCounts == {0, 1, 2, 10, 20, 21, 51}

FactTexts ==
    {[Text("A", n_claims, n_citations) EXCEPT !.n_stats = n_stats] :
        n_claims \in ClaimCounts, n_stats \in StatCounts, n_citations \in CitationCounts}

\* the outcomes of n probes: every number of each kind of outcome (the
\* probes are independent of each other, so the order is left fixed)
OutcomeLists(n) ==
    {[k \in 1..n |-> IF k <= a THEN "ok"
                     ELSE IF k <= a + b THEN "http_error"
                     ELSE IF k <= a + b + c THEN "request_error"
                     ELSE "other_error"] :
        <<a, b, c>> \in {t \in (0..n) \X (0..n) \X (0..n) : t[1] + t[2] + t[3] <= n}}

InitFacts ==
    /\ FixedStores
    /\ last \in {Idle} \cup
                UNION {{[op |-> "input", content |-> content, outcomes |-> outcomes] :
                           outcomes \in OutcomeLists(probed_citations(content))} :
                       content \in FactTexts}

\* FactChecker.check_facts on the text drawn, for a record just assessed
CheckFacts ==
    /\ last.op = "input"
    /\ LET c == check_facts(last.content, NewVerification("s1"), last.outcomes) IN
       last' = [op |-> "check_facts", content |-> last.content, outcomes |-> last.outcomes,
                raised |-> None, result |-> c.result, verification |-> c.verification]
    /\ UNCHANGED <<sources, items, trusted, blocked, verifications, validations, checker_thresholds, calls>>

NextFacts ==
    \/ CheckFacts
    \/ (last = Idle /\ VerifyCollectedData)

SpecFacts == InitFacts /\ [][NextFacts]_vars

----------------------------------------------------------------------------
(* SpecMerge: update_verification_freshness applied again and again to a    *)
(* record of any status, with the results of checks of different items      *)

\* merges applied to one record
MaxMerges == 3

\* the records merged into: every status, with and without earlier issues
MergeRecords ==
    {[NewVerification("s1") EXCEPT !.status = status, !.issues_found = issues] :
        status \in VerificationStatus,
        issues \in {None, Some(<<"blocked_source">>), Some(<<"outdated_content">>)}}

\* a recent item, an old one, and one whose metadata date cannot be parsed
MergeItems ==
    {[NewItem(Some("s1"), Some("r1"), Text("A", 0, 0), content_date, 0)
         EXCEPT !.extra_metadata = metadata] :
        content_date \in {Some(5), Some(400)}, metadata \in {NoMetadata}}
    \cup {[NewItem(Some("s1"), Some("r1"), Text("A", 0, 0), None, 0)
              EXCEPT !.extra_metadata = [k \in {"publication_date"} |-> DateStr("text", 0)]]}

InitMerge ==
    /\ FixedStores
    /\ last \in {[op |-> "input", verification |-> v, merges |-> 0] : v \in MergeRecords}

\* FreshnessChecker.update_verification_freshness with the result of a check
MergeFreshness ==
    /\ last.merges < MaxMerges
    /\ \E item \in MergeItems :
          LET freshness_result == check_freshness(item, Some("news"), checker_thresholds) IN
          last' = [op |-> "update_verification_freshness",
                   before |-> last.verification,
                   freshness_result |-> freshness_result,
                   verification |-> update_verification_freshness(last.verification,
                                                                  freshness_result),
                   merges |-> last.merges + 1]
    /\ UNCHANGED <<sources, items, trusted, blocked, verifications, validations, checker_thresholds, calls>>

NextMerge == MergeFreshness

SpecMerge == InitMerge /\ [][NextMerge]_vars

----------------------------------------------------------------------------
(* SpecConc: verify_source calls running concurrently with one another and  *)
(* with the registry writes.  Every call has a database session of its own, *)
(* holding the Source row as its caller loaded it; a call is cut at its     *)
(* awaits, and each of its queries reads what is committed when it runs.    *)

CallIds == {"c1", "c2"}

FakeNewsUrl == Some([scheme |-> TRUE, host |-> "fake-news.com"])

\* two Sources of the domain the registry writes are about
ConcSources ==
    [s \in SourceIds |->
        IF s = "s1" THEN NewSource(FakeNewsUrl, "web_scraping", 95, None, Some(400))
        ELSE NewSource(FakeNewsUrl, "government", 100, None, None)]

InitConc ==
    /\ sources = ConcSources
    /\ items = ItemTable("A2", "B")
    /\ trusted = NoTrusted
    /\ blocked = {}
    /\ verifications = <<>>
    /\ validations = <<>>
    /\ checker_thresholds = freshness_thresholds
    /\ calls = NoCalls
    /\ last = Idle

\* a call as issued: the row its session holds, and the registry as committed
\* at that moment
IssuedCall(sid, perform_full_check) ==
    [pc |-> "issued", source_id |-> sid, perform_full_check |-> perform_full_check,
     source |-> sources[sid],
     issued_trusted |-> trusted, issued_blocked |-> blocked,
     read_trusted |-> NoTrusted, read_blocked |-> {},
     latest |-> None, verification |-> None, row |-> 0]

\* a flush that sends no UPDATE for the Source
flush_source_lost(row, loaded, mine) == row

\* the flush of the session's Source at commit: an UPDATE of the columns the
\* call gave a value other than the loaded one
flush_source(row, loaded, mine) ==
    [row EXCEPT
        !.reliability_score = IF mine.reliability_score # loaded.reliability_score
                              THEN mine.reliability_score ELSE @,
        !.status = IF mine.status # loaded.status THEN mine.status ELSE @]

\* POST /sources/{source_id}/verify: the Source is loaded and verify_source called
IssueVerifySource ==
    /\ \E c \in CallIds \ DOMAIN calls, sid \in SourceIds, perform_full_check \in BOOLEAN :
          /\ calls' = calls @@ (c :> IssuedCall(sid, perform_full_check))
          /\ last' = [op |-> "issue_verify_source", call |-> c]
    /\ UNCHANGED <<sources, items, trusted, blocked, verifications, validations, checker_thresholds>>

\* await self._is_source_blocked(source): the query of blocked_sources
ReadBlocked ==
    /\ \E c \in DOMAIN calls :
          /\ calls[c].pc = "issued"
          /\ calls' = [calls EXCEPT ![c].pc = "checked", ![c].read_blocked = blocked]
          /\ last' = [op |-> "read_blocked", call |-> c]
    /\ UNCHANGED <<sources, items, trusted, blocked, verifications, validations, checker_thresholds>>

\* await self._calculate_domain_trust(source): the query of trusted_sources
\* (for a Source found blocked, the second query of blocked_sources instead)
ReadTrusted ==
    /\ \E c \in DOMAIN calls :
          /\ calls[c].pc = "checked"
          /\ calls' = [calls EXCEPT ![c].pc = "assessed", ![c].read_trusted = trusted]
          /\ last' = [op |-> "read_trusted", call |-> c]
    /\ UNCHANGED <<sources, items, trusted, blocked, verifications, validations, checker_thresholds>>

\* the rest of verify_source: the freshness step, db.add and the commit
SaveVerification ==
    /\ \E c \in DOMAIN calls :
       \E latest \in LatestChoices(items, calls[c].source_id) :
          LET call == calls[c]
              sid == call.source_id
              r == verify_source_result(sid, call.source, call.perform_full_check, latest,
                                        items, call.read_trusted, call.read_blocked)
              raises == verify_source_raises(sid, call.source, call.perform_full_check,
                                             latest, items, call.read_trusted,
                                             call.read_blocked) IN
          /\ call.pc = "assessed"
          /\ sources' = IF raises THEN sources
                        ELSE [sources EXCEPT
                                 ![sid] = flush_source(@, call.source, r.source)]
          /\ verifications' = IF raises THEN verifications
                              ELSE Append(verifications, r.verification)
          /\ calls' = [calls EXCEPT
                          ![c].pc = IF raises THEN "raised" ELSE "done",
                          ![c].latest = latest,
                          ![c].verification = IF raises THEN None ELSE Some(r.verification),
                          ![c].row = IF raises THEN 0 ELSE Len(verifications) + 1]
          /\ last' = [op |-> "save_verification", call |-> c]
    /\ UNCHANGED <<items, trusted, blocked, validations, checker_thresholds>>

NextConc ==
    \/ IssueVerifySource
    \/ ReadBlocked
    \/ ReadTrusted
    \/ SaveVerification
    \/ AddTrustedSource
    \/ BlockSource

SpecConc == InitConc /\ [][NextConc]_vars

----------------------------------------------------------------------------
(* SpecSiblings: verify_collected_data on a table that also holds items     *)
(* collected outside any research session                                   *)

\* one item of s1 and four of s2 in the research session "r1"; one item of
\* each Source with no research session
SiblingItems ==
    [i \in {"i1", "i2", "i3", "i4", "i5", "i6", "i7"} |->
        CASE i = "i1" -> NewItem(Some("s1"), Some("r1"), Text("A", 0, 0), Some(1), 1)
          [] i \in {"i2", "i3", "i4", "i5"} ->
                NewItem(Some("s2"), Some("r1"), Text("A", 0, 0), Some(1), 1)
          [] i = "i6" -> NewItem(Some("s1"), None, Text("A", 0, 0), Some(1), 1)
          [] i = "i7" -> NewItem(Some("s2"), None, Text("B", 0, 0), Some(1), 1)]

InitSiblings ==
    /\ sources = ConcSources
    /\ items = SiblingItems
    /\ trusted = NoTrusted
    /\ blocked = {}
    /\ verifications = <<>>
    /\ validations = <<>>
    /\ checker_thresholds = freshness_thresholds
    /\ calls = NoCalls
    /\ last = Idle

NextSiblings == last = Idle /\ VerifyCollectedData

SpecSiblings == InitSiblings /\ [][NextSiblings]_vars

----------------------------------------------------------------------------
(* SpecHistory: verify_source, verify_collected_data and the registry       *)
(* writes one after another on the same tables, and get_verification_report *)
(* reading them                                                             *)

\* one item of s1, one of s2 in the same research session, one without a Source
HistoryItems == [i \in {"i1", "i2", "i5"} |-> ItemTable("A2", "B")[i]]

InitHistory ==
    /\ sources = ConcSources
    /\ items = HistoryItems
    /\ trusted = NoTrusted
    /\ blocked = {}
    /\ verifications = <<>>
    /\ validations = <<>>
    /\ checker_thresholds = freshness_thresholds
    /\ calls = NoCalls
    /\ last = Idle

\* the rows select(...).where(column == key) returns, in table order
RowsWhere(tbl, column, key) ==
    SelectSeq([k \in 1..Len(tbl) |-> [id |-> k, row |-> tbl[k]]],
              LAMBDA e : e.row[column] = key)

\* a "source_verifications" entry of the report
verification_report_entry(e) ==
    [id |-> e.id,
     status |-> e.row.status,
     reliability_score |-> e.row.reliability_score,
     reliability_rating |-> e.row.reliability_rating,
     is_outdated |-> e.row.is_outdated,
     fact_check_passed |-> e.row.fact_check_passed,
     issues_found |-> e.row.issues_found]

\* a "data_validations" entry of the report
validation_report_entry(e) ==
    [id |-> e.id,
     is_validated |-> e.row.is_validated,
     status |-> e.row.validation_status,
     confidence_score |-> e.row.confidence_score,
     agreement_percentage |-> e.row.agreement_percentage]

\* a report that lists the records of every Source
get_verification_report_unfiltered(vers, vals, source_id, collected_data_id) ==
    [source_verifications |->
        IF IsNone(source_id) THEN <<>>
        ELSE LET rows == [k \in 1..Len(vers) |-> [id |-> k, row |-> vers[k]]]
             IN  [k \in 1..Len(rows) |-> verification_report_entry(rows[k])],
     data_validations |->
        IF IsNone(collected_data_id) THEN <<>>
        ELSE LET rows == RowsWhere(vals, "collected_data_id", Val(collected_data_id))
             IN  [k \in 1..Len(rows) |-> validation_report_entry(rows[k])]]

\* VerificationService.get_verification_report
get_verification_report(vers, vals, source_id, collected_data_id) ==
    [source_verifications |->
        IF IsNone(source_id) THEN <<>>
        ELSE LET rows == RowsWhere(vers, "source_id", Val(source_id))
             IN  [k \in 1..Len(rows) |-> verification_report_entry(rows[k])],
     data_validations |->
        IF IsNone(collected_data_id) THEN <<>>
        ELSE LET rows == RowsWhere(vals, "collected_data_id", Val(collected_data_id))
             IN  [k \in 1..Len(rows) |-> validation_report_entry(rows[k])]]

ReportSourceIds == {None} \cup {Some(sid) : sid \in SourceIds}
ReportItemIds == {None, Some("i1")}

GetVerificationReport ==
    /\ \E source_id \in ReportSourceIds, collected_data_id \in ReportItemIds :
          last' = [op |-> "get_verification_report", source_id |-> source_id,
                   collected_data_id |-> collected_data_id,
                   report |-> get_verification_report(verifications, validations,
                                                      source_id, collected_data_id)]
    /\ UNCHANGED <<sources, items, trusted, blocked, verifications, validations, checker_thresholds, calls>>

NextHistory ==
    \/ VerifySource
    \/ VerifyCollectedData
    \/ BlockSource
    \/ GetVerificationReport

SpecHistory == InitHistory /\ [][NextHistory]_vars

----------------------------------------------------------------------------
(* Properties of Spec                                                       *)

\* the Source's URL yields a domain that is on the blocked list
HasBlockedDomain(sid) ==
    /\ ~IsNone(sources[sid].url)
    /\ extract_domain(Val(sources[sid].url)) \in blocked

\* the Source's URL yields a domain that is on the trusted list
HasTrustedDomain(sid) ==
    /\ ~IsNone(sources[sid].url)
    /\ extract_domain(Val(sources[sid].url)) \in DOMAIN trusted

\* the record is the one a blocked Source gets
IsBlockedRecord(verification) ==
    /\ verification.status = "failed"
    /\ verification.reliability_score = Some(0)
    /\ ~IsNone(verification.issues_found)
    /\ Contains(Val(verification.issues_found), "blocked_source")

\* C1: for a Source whose URL's domain is on the blocked list, verify_source
\* (with or without the full check) returns a record with status failed,
\* reliability score 0.0 and "blocked_source" among its issues, whatever the
\* Source's type, success rate, fetch history or trusted-list entry.
C1_BlockedSourceFails ==
    last.op = "verify_source" /\ HasBlockedDomain(last.source_id)
        => IsBlockedRecord(last.verification)

\* a government Source with a perfect success rate, a fetch on record and a
\* trusted entry, verified in full while its domain is blocked
C1_Witness ==
    /\ last.op = "verify_source"
    /\ last.perform_full_check
    /\ HasBlockedDomain(last.source_id)
    /\ HasTrustedDomain(last.source_id)
    /\ sources[last.source_id].source_type = "government"
    /\ sources[last.source_id].success_rate = Some(100)
    /\ ~IsNone(sources[last.source_id].last_successful_fetch)
    /\ IsBlockedRecord(last.verification)

\* C2: after any sequence of add_trusted_source and block_source calls, a
\* Source whose domain is on both lists is assessed as blocked (failed, score
\* 0.0, the trust score of the trusted entry not used), and block_source
\* leaves the trusted list as it was.
C2_BlockOverridesTrust ==
    /\ [](last.op \in {"assess_source", "verify_source"}
          /\ HasBlockedDomain(last.source_id) /\ HasTrustedDomain(last.source_id)
             => /\ IsBlockedRecord(last.verification)
                /\ last.verification.trustworthiness_score = Some(0)
                /\ last.verification.reliability_rating = Some("unreliable"))
    /\ [][BlockSource => trusted' = trusted]_vars

\* a Source assessed while its domain is on both lists, the trusted entry
\* still in place
C2_Witness ==
    /\ last.op = "assess_source"
    /\ HasBlockedDomain(last.source_id)
    /\ HasTrustedDomain(last.source_id)
    /\ trusted[extract_domain(Val(sources[last.source_id].url))] = 20
    /\ last.verification.trustworthiness_score = Some(0)

\* C6: every record assess_source produces, and every Source's stored
\* reliability score, lies in [0, 1], for every success rate in [0, 1] and
\* every trusted entry add_trusted_source accepted.
C6_ScoreInUnitInterval ==
    /\ \A sid \in SourceIds :
          sources[sid].reliability_score >= 0 /\ sources[sid].reliability_score <= 100 * 100
    /\ last.op \in {"assess_source", "verify_source"}
          => /\ Val(last.verification.reliability_score) >= 0
             /\ Val(last.verification.reliability_score) <= 100 * 100

\* C8: for a Source that is not blocked, verify_source with the full check
\* runs the freshness check on the most recent item and merges it into the
\* record whenever the Source has a fetch on record and at least one item; a
\* low reliability score does not make it skip the check.
C8_FreshnessRunsUnlessBlocked ==
    (/\ last.op = "verify_source"
     /\ last.perform_full_check
     /\ ~HasBlockedDomain(last.source_id)
     /\ ~IsNone(sources[last.source_id].last_successful_fetch)
     /\ LatestData(items, last.source_id) # {})
        => last.verification.freshness_check

\* C9 as stated: assess_source changes exactly one field of the Source, the
\* reliability score, which becomes the record's score; the status and every
\* other field stay as they were, for blocked and unblocked Sources alike.
C9_OnlyScoreChanges ==
    [][AssessSource =>
          sources' = [sources EXCEPT ![last'.source_id].reliability_score =
                          Val(last'.verification.reliability_score)]]_vars

\* C9: assess_source sets the Source's reliability score to the record's
\* score; for an unblocked Source nothing else changes, for a blocked Source
\* the score becomes 0.0 and the status becomes failed, and every other field
\* of the Source and every other Source stay as they were.
C9_ScoreAndBlockedStatusChange ==
    [][AssessSource =>
          sources' = [sources EXCEPT
                          ![last'.source_id].reliability_score =
                              Val(last'.verification.reliability_score),
                          ![last'.source_id].status =
                              IF HasBlockedDomain(last'.source_id) THEN "failed" ELSE @]]_vars

\* a blocked Source just assessed: score 0.0 and status failed on the Source
C9_Witness ==
    /\ last.op = "assess_source"
    /\ HasBlockedDomain(last.source_id)
    /\ sources[last.source_id].status = "failed"
    /\ sources[last.source_id].reliability_score = 0
    /\ last.verification.reliability_score = Some(0)

\* C17: add_trusted_source with a trust score outside [0, 1] is rejected and
\* leaves the trusted list as it was, so no trusted entry ever has a trust
\* score outside [0, 1].
C17_TrustScoreInUnitInterval ==
    /\ \A d \in DOMAIN trusted : trusted[d] >= 0 /\ trusted[d] <= 100
    /\ (/\ last.op \in {"add_trusted_source", "create_trusted_source"}
        /\ (last.trust_score < 0 \/ last.trust_score > 100))
          => ~IsNone(last.raised)

\* C20: re-running assess_source on an unblocked Source, with the registry
\* and the Source's success rate, type, URL and last-fetch age unchanged,
\* yields the same score, rating and status: the score the first run wrote
\* back onto the Source does not influence the second.
C20_RerunSameResult ==
    [][(/\ AssessSource
        /\ last.op = "assess_source"
        /\ last'.source_id = last.source_id
        /\ ~HasBlockedDomain(last.source_id))
          => /\ last'.verification.reliability_score = last.verification.reliability_score
             /\ last'.verification.reliability_rating = last.verification.reliability_rating
             /\ last'.verification.status = last.verification.status]_vars

\* an unblocked Source just assessed, whose stored score the run has changed
\* from the default 0.5 to the record's score: the state a second run starts in
C20_Witness ==
    /\ last.op = "assess_source"
    /\ ~HasBlockedDomain(last.source_id)
    /\ sources[last.source_id].reliability_score # 5000
    /\ last.verification.reliability_score = Some(sources[last.source_id].reliability_score)
    /\ assess_source(last.source_id, sources[last.source_id], trusted, blocked).verification
          = last.verification

\* a never-fetched Source of government type with a government-pattern
\* domain and success rate 0.95
IsScenarioA(source) ==
    /\ ~IsNone(source.url)
    /\ is_government_domain(extract_domain(Val(source.url)))
    /\ source.source_type = "government"
    /\ source.success_rate = Some(95)
    /\ IsNone(source.last_successful_fetch)

----------------------------------------------------------------------------
(* Properties of SpecData                                                   *)

\* verify_collected_data has returned its results
Returned == last.op = "verify_collected_data" /\ ~IsNone(last.results)

Assessment == Val(last.results).overall_assessment

\* the results hold a source verification with a score of at least 0.7
SourceScoreHigh ==
    /\ ~IsNone(Val(last.results).source_verification)
    /\ Val(Val(last.results).source_verification).reliability_score >= 7000

\* the results hold a cross-validation part
CrossValidated == ~IsNone(Val(last.results).cross_validation)

CrossConfidence == Val(Val(Val(last.results).cross_validation).confidence_score)

\* C3 as stated: is_trustworthy is true whenever the cross-validation
\* confidence is at least 0.7 or the source reliability is at least 0.7.
C3_TrustworthyIfEitherHigh ==
    Returned =>
        ((CrossValidated /\ FracGeq(CrossConfidence, 7, 10)) \/ SourceScoreHigh
            => Assessment.is_trustworthy)

\* C3: is_trustworthy is true whenever the cross-validation confidence is at
\* least 0.7, and whenever the source reliability is at least 0.7 and
\* cross-validation either was not run or has a confidence of at least 0.5.
C3_TrustworthyUnlessLowConfidence ==
    Returned =>
        /\ (CrossValidated /\ FracGeq(CrossConfidence, 7, 10)) => Assessment.is_trustworthy
        /\ (SourceScoreHigh /\ (~CrossValidated \/ FracGeq(CrossConfidence, 5, 10)))
              => Assessment.is_trustworthy

\* a reliable Source whose item is cross-validated with a confidence in
\* [0.5, 0.7): the assessment keeps the trust the Source earned
C3_Witness ==
    /\ Returned
    /\ SourceScoreHigh
    /\ CrossValidated
    /\ FracGeq(CrossConfidence, 5, 10)
    /\ FracLt(CrossConfidence, 7, 10)
    /\ Assessment.is_trustworthy

\* C4: whenever cross-validation was run and its confidence is below 0.5,
\* is_trustworthy is false, whatever the source reliability.
C4_LowConfidenceNotTrustworthy ==
    Returned /\ CrossValidated /\ FracLt(CrossConfidence, 5, 10)
        => ~Assessment.is_trustworthy

\* a Source with reliability of at least 0.7 whose item no sibling supports
C4_Witness ==
    /\ Returned
    /\ SourceScoreHigh
    /\ CrossValidated
    /\ FracLt(CrossConfidence, 5, 10)
    /\ ~Assessment.is_trustworthy

\* C5: verify_collected_data with cross-validation requested, on an item whose
\* Source exists and that has no sibling items, completes without raising; its
\* cross-validation part is unvalidated with status pending, and the results
\* hold an overall assessment.
C5_NoSiblingsCompletes ==
    (/\ last.op = "verify_collected_data"
     /\ last.perform_cross_validation
     /\ ~IsNone(get_source(sources, items[last.item_id].source_id))
     /\ RelatedRows(items, last.item_id) = {})
        => /\ IsNone(last.raised)
           /\ Returned
           /\ CrossValidated
           /\ ~Val(Val(last.results).cross_validation).is_validated
           /\ Val(Val(last.results).cross_validation).status = "pending"
           /\ "overall_assessment" \in DOMAIN Val(last.results)

\* C22: in the overall assessment verify_collected_data returns, the
\* confidence level is low when more than 2 issues were accumulated, high
\* when there are no issues and is_trustworthy is true, and medium in every
\* other case; exactly one of the three cases applies.
C22_ConfidenceLevelCases ==
    Returned =>
        LET n == Len(Assessment.issues)
            level == Assessment.confidence_level IN
        /\ level \in {"low", "high", "medium"}
        /\ level = "low" <=> n > 2
        /\ level = "high" <=> (n = 0 /\ Assessment.is_trustworthy)
        /\ level = "medium" <=> (~(n > 2) /\ ~(n = 0 /\ Assessment.is_trustworthy))

\* an outdated item of an unreliable Source that its siblings contradict:
\* three issues, confidence low
C22_Witness ==
    /\ Returned
    /\ Len(Assessment.issues) = 3
    /\ Assessment.confidence_level = "low"
    /\ ~Assessment.is_trustworthy

\* C28: for every item whose Source's domain is on the blocked list, the
\* overall assessment verify_collected_data returns has is_trustworthy false
\* and a confidence level other than high, whatever the cross-validation and
\* the fact check find: agreement among sibling items never overrides a block.
C28_BlockedNeverTrustworthy ==
    (/\ Returned
     /\ ~IsNone(items[last.item_id].source_id)
     /\ HasBlockedDomain(Val(items[last.item_id].source_id)))
        => /\ ~Assessment.is_trustworthy
           /\ Assessment.confidence_level # "high"

\* C29: when the item's Source cannot be resolved, verify_collected_data
\* skips the fact check even when it is requested and behaves as it does
\* without the request: it returns results without a source-verification
\* part and without a fact-check part, with reliability "unknown", and it
\* does not end with an internal error.
C29_UnresolvedSourceSkipsFactCheck ==
    (/\ last.op = "verify_collected_data"
     /\ IsNone(get_source(sources, items[last.item_id].source_id)))
        => /\ IsNone(last.raised)
           /\ Returned
           /\ IsNone(Val(last.results).source_verification)
           /\ IsNone(Val(last.results).fact_check)
           /\ Assessment.reliability = "unknown"

----------------------------------------------------------------------------
(* Properties of SpecRating                                                 *)

\* C7: for a reliability score s the rating is excellent for s >= 0.9, good
\* for 0.7 <= s < 0.9, fair for 0.5 <= s < 0.7, poor for 0.3 <= s < 0.5 and
\* unreliable below 0.3; the status is verified for s >= 0.7, flagged for
\* 0.5 <= s < 0.7 and failed below 0.5.
C7_RatingAndStatusThresholds ==
    last.op = "rate_score" =>
        /\ last.reliability_rating = "excellent" <=> last.score >= 9000
        /\ last.reliability_rating = "good" <=> (last.score >= 7000 /\ last.score < 9000)
        /\ last.reliability_rating = "fair" <=> (last.score >= 5000 /\ last.score < 7000)
        /\ last.reliability_rating = "poor" <=> (last.score >= 3000 /\ last.score < 5000)
        /\ last.reliability_rating = "unreliable" <=> last.score < 3000
        /\ last.status = "verified" <=> last.score >= 7000
        /\ last.status = "flagged" <=> (last.score >= 5000 /\ last.score < 7000)
        /\ last.status = "failed" <=> last.score < 5000

\* the score exactly 0.9: excellent and verified
C7_Witness ==
    /\ last.op = "rate_score"
    /\ last.score = 9000
    /\ last.reliability_rating = "excellent"
    /\ last.status = "verified"

----------------------------------------------------------------------------
(* Properties of SpecValidate                                               *)

\* C10: validate_data gives status verified for an agreement of at least 80
\* percent, flagged for at least 50 and below 80, failed below 50, and pending
\* exactly when there are no related items; is_validated holds exactly when
\* the agreement is at least 50 percent, that is exactly for verified and
\* flagged; three related items of which two match give about 66.7 percent,
\* flagged and validated.
C10_ValidationThresholds ==
    last.op = "validate_data" =>
        LET v == last.validation
            n == Len(last.related_contents)
            m == v.matching_sources_count
        IN  /\ v.validation_status = "pending" <=> n = 0
            /\ n = 0 => IsNone(v.agreement_percentage) /\ ~v.is_validated
            /\ n > 0 =>
                  /\ Val(v.agreement_percentage).num * n = m * 100 * Val(v.agreement_percentage).den
                  /\ v.validation_status = "verified" <=> m * 100 >= 80 * n
                  /\ v.validation_status = "flagged" <=> (m * 100 >= 50 * n /\ m * 100 < 80 * n)
                  /\ v.validation_status = "failed" <=> m * 100 < 50 * n
                  /\ v.is_validated <=> m * 100 >= 50 * n
            /\ v.is_validated <=> v.validation_status \in {"verified", "flagged"}
            /\ (n = 3 /\ m = 2) =>
                  /\ v.validation_status = "flagged"
                  /\ v.is_validated
                  /\ FracGeq(Val(v.agreement_percentage), 666, 10)
                  /\ FracLt(Val(v.agreement_percentage), 667, 10)

\* three related items of which two match the item
C10_Witness ==
    /\ last.op = "validate_data"
    /\ Len(last.related_contents) = 3
    /\ last.validation.matching_sources_count = 2
    /\ last.validation.validation_status = "flagged"
    /\ last.validation.is_validated

\* the similarity of two contents as _compare_content reports it, in hundredths
SimilarityOf(content1, content2) ==
    IF content1 = EmptyText \/ content2 = EmptyText THEN 0
    ELSE Similarity(content1.wording, content2.wording)

----------------------------------------------------------------------------
(* Properties of SpecFresh                                                  *)

\* check_freshness has returned a result that holds a content date
ResolvedDate ==
    /\ last.op = "check_freshness"
    /\ IsNone(last.raised)
    /\ ~IsNone(Val(last.result).content_date)

\* C12: whenever check_freshness resolves a content date, is_fresh is true
\* exactly when days_old is at most the threshold of the category, and
\* is_outdated is the negation of is_fresh; content dated 400 days ago,
\* checked as "news" with the threshold 90, is not fresh and is outdated.
C12_FreshIffWithinThreshold ==
    ResolvedDate =>
        LET r == Val(last.result) IN
        /\ ~IsNone(last.category) /\ Val(last.category) \in DOMAIN checker_thresholds
              => r.threshold_days = checker_thresholds[Val(last.category)]
        /\ Val(r.is_fresh) <=> Val(r.days_old) <= r.threshold_days
        /\ Val(r.is_outdated) <=> ~Val(r.is_fresh)
        /\ (/\ last.item.content_date = Some(400)
            /\ last.category = Some("news")
            /\ checker_thresholds["news"] = 90)
              => /\ r.days_old = Some(400)
                 /\ r.is_fresh = Some(FALSE)
                 /\ r.is_outdated = Some(TRUE)

\* content exactly as old as the threshold of its category: still fresh
C12_Witness ==
    /\ ResolvedDate
    /\ last.category = Some("news")
    /\ checker_thresholds["news"] = 90
    /\ Val(last.result).days_old = Some(90)
    /\ Val(last.result).is_fresh = Some(TRUE)
    /\ Val(last.result).is_outdated = Some(FALSE)

\* C16: for a category that has no threshold entry, after any sequence of
\* set_freshness_threshold calls, check_freshness and get_freshness_threshold
\* use the threshold currently configured for "general": the lookup of the
\* category does not fail, and the threshold a call reports is that one.
C16_UnmappedCategoryUsesGeneral ==
    /\ (last.op = "get_freshness_threshold" /\ last.category \notin DOMAIN checker_thresholds)
          => last.threshold = checker_thresholds["general"]
    /\ (/\ last.op = "check_freshness"
        /\ ~IsNone(last.category)
        /\ Val(last.category) \notin DOMAIN checker_thresholds
        /\ IsNone(last.raised))
          => Val(last.result).threshold_days = checker_thresholds["general"]

\* the first usable date of the metadata: "publication_date", then "date"
FirstMetadataDate(item) ==
    LET md == item.extra_metadata
        publication == IF "publication_date" \in DOMAIN md
                       THEN parse_date(md["publication_date"]) ELSE None
        date == IF "date" \in DOMAIN md THEN parse_date(md["date"]) ELSE None
    IN  IF ~IsNone(publication) THEN publication ELSE date

\* the first date obtainable in the order content_date, metadata, text,
\* collected_date
FirstObtainableDate(item) ==
    IF ~IsNone(item.content_date) THEN item.content_date
    ELSE IF ~IsNone(FirstMetadataDate(item)) THEN FirstMetadataDate(item)
    ELSE IF ~IsNone(extract_date_from_text(content_of(item)))
         THEN extract_date_from_text(content_of(item))
    ELSE Some(item.collected_date)

\* C25: check_freshness resolves the content date as the first date
\* obtainable in the order content_date, metadata keys, date pattern in the
\* text, collected_date; a stage that yields no usable date (field absent,
\* metadata value that cannot be parsed) hands over to the next, so an item
\* with a collected_date always gets a content date and a definite is_fresh.
C25_DateResolutionFallsThrough ==
    (last.op = "check_freshness" /\ IsNone(last.raised)) =>
        LET r == Val(last.result) IN
        /\ r.content_date = FirstObtainableDate(last.item)
        /\ ~IsNone(r.content_date)
        /\ ~IsNone(r.is_fresh)

----------------------------------------------------------------------------
(* Properties of SpecScore                                                  *)

FracEq(a, num, den) == a.num * den = num * a.den

\* the score is in [0, 1], no larger one day later, and computed without a
\* division by zero
ScoreBoundedAndFalling ==
    /\ IsNone(last.raised)
    /\ FracGeq(last.score, 0, 1)
    /\ ~FracLt([num |-> 1, den |-> 1], last.score.num, last.score.den)
    /\ last.score_next.num * last.score.den <= last.score.num * last.score_next.den

\* C13 as stated: for every integer threshold the score is non-increasing in
\* the age, in [0, 1], 1.0 at age 0 and for future dates, 0.0 at every age of
\* at least twice the threshold, linear in between (0.5 at age = threshold),
\* with no division by zero.
C13_LinearDecayEveryThreshold ==
    last.op = "freshness_score" =>
        LET d == last.days_old
            t == last.threshold
        IN  /\ ScoreBoundedAndFalling
            /\ d <= 0 => FracEq(last.score, 1, 1)
            /\ d >= 2 * t => FracEq(last.score, 0, 1)
            /\ (d > 0 /\ d < 2 * t) => FracEq(last.score, 2 * t - d, 2 * t)
            /\ d = t => FracEq(last.score, 1, 2)

\* C13: for every integer threshold the score is non-increasing in the age,
\* in [0, 1] and computed without a division by zero, and it is 1.0 at age 0
\* and for future dates; for a positive threshold it is 0.0 at every age of at
\* least twice the threshold and linear in between (0.5 at age = threshold);
\* for a threshold of zero or less it is 0.0 at every age above 0.
C13_LinearDecayPositiveThreshold ==
    last.op = "freshness_score" =>
        LET d == last.days_old
            t == last.threshold
        IN  /\ ScoreBoundedAndFalling
            /\ d <= 0 => FracEq(last.score, 1, 1)
            /\ t > 0 =>
                  /\ d >= 2 * t => FracEq(last.score, 0, 1)
                  /\ (d > 0 /\ d < 2 * t) => FracEq(last.score, 2 * t - d, 2 * t)
                  /\ d = t => FracEq(last.score, 1, 2)
            /\ t <= 0 => (d > 0 => FracEq(last.score, 0, 1))

\* an age equal to a positive threshold: half the score
C13_Witness ==
    /\ last.op = "freshness_score"
    /\ last.threshold = 7
    /\ last.days_old = 7
    /\ FracEq(last.score, 1, 2)
    /\ FracEq(last.score_next, 6, 14)

----------------------------------------------------------------------------
(* Properties of SpecFacts                                                  *)

\* C14: check_facts sets fact_check_passed to true exactly when total_claims
\* is 0 or verified_claims / total_claims is at least 0.7, and writes the same
\* fact_check_passed, verified_claims and total_claims onto the verification
\* record, with fact_check_performed true; a text with no claims, statistics
\* or citations gives fact_check_passed true and total_claims 0.
C14_PassedIffRateAtLeast70 ==
    last.op = "check_facts" =>
        LET r == last.result
            v == last.verification
        IN  /\ r.fact_check_passed <=>
                  (r.total_claims = 0 \/ r.verified_claims * 10 >= 7 * r.total_claims)
            /\ v.fact_check_performed
            /\ v.fact_check_passed = Some(r.fact_check_passed)
            /\ v.verified_claims = r.verified_claims
            /\ v.total_claims = r.total_claims
            /\ (/\ last.content.n_claims = 0
                /\ last.content.n_stats = 0
                /\ last.content.n_citations = 0)
                  => r.fact_check_passed /\ r.total_claims = 0

\* ten citations and nothing else, seven of them reachable: exactly 0.7
C14_Witness ==
    /\ last.op = "check_facts"
    /\ last.result.total_claims = 10
    /\ last.result.verified_claims = 7
    /\ last.result.fact_check_passed
    /\ last.verification.fact_check_passed = Some(TRUE)

\* the probes are capped at 20, each probed citation is in exactly one class,
\* and the call returns; the same inside verify_collected_data
ProbesBoundedAndReturned ==
    /\ last.op = "check_facts" =>
          LET c == last.result.citations IN
          /\ IsNone(last.raised)
          /\ c.total_checked <= 20
          /\ c.total_checked = Len(last.outcomes)
          /\ c.valid + c.invalid + c.errors = c.total_checked
          /\ c.valid = CountOf(last.outcomes, {"ok"})
    /\ (/\ last.op = "verify_collected_data"
        /\ last.perform_fact_check
        /\ ~last.perform_cross_validation
        /\ ~IsNone(get_source(sources, items[last.item_id].source_id)))
          => /\ IsNone(last.raised)
             /\ ~IsNone(Val(last.results).fact_check)
             /\ Val(Val(last.results).fact_check).citations.total_checked
                   = probed_citations(content_of(items[last.item_id]))

\* C15 as stated: at most 20 citations are probed per call and the call
\* returns; each probed citation is classified once, as valid (a response
\* with a non-error status), invalid (a response with a client or server error
\* status) or error (a transport failure such as an unreachable host or a
\* timeout); no probe failure is raised or aborts verify_collected_data.
C15_TransportFailureIsError ==
    /\ ProbesBoundedAndReturned
    /\ last.op = "check_facts" =>
          /\ last.result.citations.invalid = CountOf(last.outcomes, {"http_error"})
          /\ last.result.citations.errors =
                CountOf(last.outcomes, {"request_error", "other_error"})

\* C15: at most 20 citations are probed per call and the call returns; each
\* probed citation is classified once, as valid (a response with a status
\* below 400), invalid (a response with a status of 400 or more, or a
\* transport failure such as an unreachable host or a timeout) or error (any
\* other exception of the probe); no probe failure is raised or aborts
\* verify_collected_data.
C15_TransportFailureIsInvalid ==
    /\ ProbesBoundedAndReturned
    /\ last.op = "check_facts" =>
          /\ last.result.citations.invalid =
                CountOf(last.outcomes, {"http_error", "request_error"})
          /\ last.result.citations.errors = CountOf(last.outcomes, {"other_error"})

\* a text with more than 20 citations: 20 probes, of every class
C15_Witness ==
    /\ last.op = "check_facts"
    /\ last.content.n_citations = 21
    /\ last.result.citations.total_checked = 20
    /\ CountOf(last.outcomes, {"request_error"}) = 3
    /\ last.result.citations.valid = 10
    /\ last.result.citations.invalid = 8
    /\ last.result.citations.errors = 2

----------------------------------------------------------------------------
(* Properties of SpecConc                                                   *)

\* the calls that have returned a record
Returned_calls == {c \in DOMAIN calls : calls[c].pc = "done"}

\* what the call would have returned had every registry read of it been of
\* the registry as committed when the call was issued
AsIssued(call) ==
    verify_source_result(call.source_id, call.source, call.perform_full_check,
                         call.latest, items, call.issued_trusted,
                         call.issued_blocked).verification

\* C18: under any interleaving of block_source / add_trusted_source commits
\* with running assessments, an assessment sees every write committed before
\* it was issued, and an assessment already in flight when a write commits
\* returns what it would have returned had the write not happened: all its
\* registry reads are of the registry as of when it was issued.
C18_InFlightReadsRegistryAsIssued ==
    \A c \in Returned_calls :
        /\ calls[c].issued_blocked \subseteq calls[c].read_blocked
        /\ DOMAIN calls[c].issued_trusted \subseteq DOMAIN calls[c].read_trusted
        /\ Val(calls[c].verification) = AsIssued(calls[c])

\* the rows of source_verifications that belong to the Source
RecordsOf(sid) == {k \in 1..Len(verifications) : verifications[k].source_id = sid}

----------------------------------------------------------------------------
(* Properties of SpecHistory                                                *)

\* the step leaves every stored record as it was and adds one for the Source
AppendsOneFor(sid) ==
    /\ Len(verifications') = Len(verifications) + 1
    /\ SubSeq(verifications', 1, Len(verifications)) = verifications
    /\ verifications'[Len(verifications')].source_id = sid

----------------------------------------------------------------------------
(* Properties of SpecMerge                                                  *)

\* how many times the issue is on the record
IssueCount(verification, issue) ==
    IF IsNone(verification.issues_found) THEN 0
    ELSE Cardinality({k \in 1..Len(Val(verification.issues_found)) :
                         Val(verification.issues_found)[k] = issue})

\* C24: merging a freshness result into a record never upgrades its status:
\* the only change of status is verified -> flagged, and only when the item
\* is outdated; a failed, flagged or pending record keeps its status; when
\* the item is outdated the issue "outdated_content" is on the record
\* afterwards, and it is there at most once however often the merge is applied.
C24_MergeNeverUpgrades ==
    last.op = "update_verification_freshness" =>
        LET before == last.before
            after == last.verification
            outdated == IsOutdated(last.freshness_result) IN
        /\ after.status # before.status
              => (before.status = "verified" /\ after.status = "flagged" /\ outdated)
        /\ before.status \in {"failed", "flagged", "pending"} => after.status = before.status
        /\ outdated => IssueCount(after, "outdated_content") = 1
        /\ IssueCount(after, "outdated_content") <= 1

\* a record that was verified, already downgraded by an earlier merge, merged
\* once more with an outdated result: still flagged, the issue there once
C24_Witness ==
    /\ last.op = "update_verification_freshness"
    /\ last.merges >= 2
    /\ IsOutdated(last.freshness_result)
    /\ IssueCount(last.before, "outdated_content") = 1
    /\ last.before.status = "flagged"
    /\ last.verification.status = "flagged"
    /\ IssueCount(last.verification, "outdated_content") = 1

----------------------------------------------------------------------------
(* Properties of SpecValidate: the confidence score                         *)

\* C26: for m matching out of n >= 1 comparisons, the confidence score of
\* validate_data is (m/n)/2 when n = 1, min(1.0, 1.2 x m/n) when n >= 5 and
\* m/n when 2 <= n <= 4; it lies in [0, 1] and, for fixed n, does not
\* decrease when m grows.
C26_ConfidenceBySampleSize ==
    (last.op = "validate_data" /\ last.related_contents # <<>>) =>
        LET v == last.validation
            n == Len(last.related_contents)
            m == v.matching_sources_count
            c == Val(v.confidence_score)
            one_more == calculate_confidence(m + 1, n) IN
        /\ n = 1 => FracEq(c, m, 2 * n)
        /\ n >= 5 => IF 12 * m >= 10 * n THEN FracEq(c, 1, 1) ELSE FracEq(c, 12 * m, 10 * n)
        /\ (n >= 2 /\ n <= 4) => FracEq(c, m, n)
        /\ FracGeq(c, 0, 1)
        /\ ~FracLt([num |-> 1, den |-> 1], c.num, c.den)
        /\ m < n => FracGeq(one_more, c.num, c.den)

\* five comparisons, all matching: 1.2 x 5/5 capped at 1.0
C26_Witness ==
    /\ last.op = "validate_data"
    /\ Len(last.related_contents) = 5
    /\ last.validation.matching_sources_count = 5
    /\ FracEq(Val(last.validation.confidence_score), 1, 1)

----------------------------------------------------------------------------
(* Properties of SpecSiblings                                               *)

\* C27: the sibling list verify_collected_data hands to the CrossValidator
\* holds only items that share the primary item's research session, belong
\* to a different Source and are not the primary item, and at most 10 of
\* them; an item with no research session gets no siblings.
C27_SiblingsShareResearch ==
    (last.op = "verify_collected_data" /\ last.perform_cross_validation) =>
        LET item == items[last.item_id]
            related == last.related IN
        /\ \A k \in 1..Len(related) :
              /\ items[related[k]].research_id = item.research_id
              /\ items[related[k]].source_id # item.source_id
              /\ related[k] # last.item_id
        /\ Len(related) <= 10
        /\ IsNone(item.research_id) => related = <<>>

----------------------------------------------------------------------------
(* Properties of SpecFacts: reachable citations                             *)

\* C30: if an item holds no numeric claims and no statistics and every
\* citation URL in it is reachable (every probe returns a non-error status),
\* check_facts yields fact_check_passed = true for any number of citations;
\* and verified_claims never exceeds total_claims nor the number of
\* citations probed.
C30_ReachableCitationsPass ==
    last.op = "check_facts" =>
        /\ (/\ last.content.n_claims = 0
            /\ last.content.n_stats = 0
            /\ \A k \in 1..Len(last.outcomes) : last.outcomes[k] = "ok")
              => last.result.fact_check_passed
        /\ last.result.verified_claims <= last.result.total_claims
        /\ last.result.verified_claims <= Len(last.outcomes)

====
